---- MODULE Spec2Model ----
(***************************************************************************)
(* MediaDownloader: the HTML metadata extractor and the streaming          *)
(* downloader of audiomack_downloader.py, and the vendor API metadata      *)
(* client of spotify_utils.py.                                             *)
(*                                                                         *)
(* Python text is a sequence of tokens; None is the one-token sequence     *)
(* <<"None">>, which no text of the model contains, so "not x" is          *)
(* ~Truthy(x): x is None or the empty text.                                *)
(***************************************************************************)
EXTENDS Integers, Sequences, FiniteSets, TLC

VARIABLES
    dl_pc,        \* download_direct: position in the function
    dl_cb,        \* download_direct: whether progress_callback was passed
    dl_status,    \* resp.status_code (0 before the response)
    dl_cl,        \* the Content-Length header: NoHeader or its number
    total,        \* download_direct: total
    downloaded,   \* download_direct: downloaded
    sent,         \* the chunks iter_content has yielded so far
    written,      \* how many chunks fh.write has written
    file,         \* the destination file: [exists, data]
    file0,        \* the destination file before the call
    events,       \* what progress_callback received, in order
    dl_err,       \* the message of the exception download_direct raised
    dl_cause,     \* what actually went wrong
    dl_gets,      \* how many GET requests the call issued
    dl_failedAt,  \* the step at which the exception was raised
    v_pc,         \* spotify extract_info: position in the function
    v_env,        \* the process environment: bearer, client_id, client_secret
    v_url,        \* the url argument: [host, parts]
    v_reqs,       \* the HTTP requests the call has issued, in order
    v_headers,    \* headers, None until obtained
    v_info,       \* info
    v_err,        \* the message of the exception extract_info raised
    v_authErr,    \* the message of the exception _get_auth_headers raised
    v_embedErr,   \* the message of the exception the oEmbed fallback raised
    h_pc,         \* audiomack extract_info: position in the function
    h_status,     \* resp.status_code (0 before the response)
    h_ld,         \* the first application/ld+json block of the page
    h_scan,       \* what re.findall finds in the page: the .mp3/.m3u8 links
    h_info,       \* info
    h_err         \* the message of the exception extract_info raised

dlVars == <<dl_pc, dl_cb, dl_status, dl_cl, total, downloaded, sent, written,
            file, file0, events, dl_err, dl_cause, dl_gets, dl_failedAt>>

vVars == <<v_pc, v_env, v_url, v_reqs, v_headers, v_info, v_err, v_authErr, v_embedErr>>

hVars == <<h_pc, h_status, h_ld, h_scan, h_info, h_err>>

vars == <<dlVars, vVars, hVars>>

(***************************************************************************)
(* Bounds                                                                  *)
(***************************************************************************)
MaxChunk == 2       \* the longest chunk iter_content yields, in bytes
MaxChunks == 3      \* the most chunks one response body is read in
MaxTracks == 3      \* the most tracks an album or playlist response lists
MaxLinks == 3       \* the most .mp3/.m3u8 links the page scan finds
MaxPath == 3        \* the most characters of a url path

None == <<"None">>
Truthy(x) == x # None /\ x # <<>>

(***************************************************************************)
(* Streaming downloader                                                    *)
(***************************************************************************)
Byte == {0, 1}
NoHeader == -1
\* a chunk of iter_content: any number of bytes up to the chunk size
Chunks == {<<>>} \cup UNION {[1..n -> {b}] : n \in 1..MaxChunk, b \in Byte}
ContentLengths == {NoHeader} \cup (0..(MaxChunk * MaxChunks + 1))
Statuses == {200, 206, 403, 404, 500}
FilesBefore == {[exists |-> FALSE, data |-> <<>>], [exists |-> TRUE, data |-> <<1, 0, 1>>]}

RECURSIVE Flatten(_)
Flatten(cs) == IF cs = <<>> THEN <<>> ELSE Head(cs) \o Flatten(Tail(cs))

NonEmpty(cs) == SelectSeq(cs, LAMBDA c : c # <<>>)

\* int(resp.headers.get('Content-Length') or 0)
TotalOf(cl) == IF cl = NoHeader THEN 0 ELSE cl

\* a progress report that shows a full bar when the size is unknown
PercentageFullWhenUnknown(d, t) == IF t # 0 THEN (d * 100) \div t ELSE 100

\* int((downloaded / total) * 100) if total else 0.  The float quotient is
\* exact to the integer for every downloaded <= 22 and total <= 22.
Percentage(d, t) == IF t # 0 THEN (d * 100) \div t ELSE 0

DownloadingEvent(d, t) ==
    [status |-> "downloading", downloaded_bytes |-> d, total_bytes |-> t,
     percentage |-> Percentage(d, t)]

\* a finished event that computes its percentage like the others
FinishedEventComputed(d, t) ==
    [status |-> "finished", downloaded_bytes |-> d, total_bytes |-> t,
     percentage |-> Percentage(d, t)]

FinishedEvent(d, t) ==
    [status |-> "finished", downloaded_bytes |-> d, total_bytes |-> t,
     percentage |-> 100]

\* Every exception the body of the try block can raise is an IOError: OSError
\* from open/write/close, and the requests exceptions iter_content raises
\* (requests.RequestException derives from IOError).
IsIOError(exc) == exc \in {"OSError", "ReadTimeout", "ConnectionError", "ChunkedEncodingError"}

\* except IOError as e: raise Exception('Failed to write audio file: ...')
CaughtInTry(exc) == IF IsIOError(exc) THEN "Failed to write audio file" ELSE exc

\* what went wrong, by exception
CauseOf(exc) ==
    CASE exc \in {"Timeout", "ReadTimeout"} -> "timeout"
      [] exc \in {"ConnectionError", "ChunkedEncodingError"} -> "connection"
      [] exc = "RequestException" -> "request"
      [] OTHER -> "write"

\* the error category of section 7 each message of download_direct stands for
ErrorCategory(msg) ==
    CASE msg \in {"Download timed out", "Connection error"} -> "TransportError"
      [] msg = "Failed to download audio" -> "RequestError"
      [] msg = "Access denied" -> "AccessError"
      [] msg = "The audio file was not found" -> "NotFoundError"
      [] msg = "Failed to download audio (HTTP)" -> "UnexpectedStatusError"
      [] msg = "Failed to write audio file" -> "IOError"
      [] OTHER -> msg

DlFail(msg, cause) ==
    /\ dl_pc' = "failed"
    /\ dl_failedAt' = dl_pc
    /\ dl_err' = msg
    /\ dl_cause' = cause

\* requests.get raises
DlRequestRaises ==
    /\ UNCHANGED <<vVars, hVars>>
    /\ dl_pc = "start"
    /\ dl_gets' = dl_gets + 1
    /\ \E exc \in {"Timeout", "ConnectionError", "RequestException"} :
          DlFail(CASE exc = "Timeout" -> "Download timed out"
                   [] exc = "ConnectionError" -> "Connection error"
                   [] OTHER -> "Failed to download audio",
                 CauseOf(exc))
    /\ UNCHANGED <<dl_cb, dl_status, dl_cl, total, downloaded, sent, written,
                   file, file0, events>>

\* requests.get returns; the status checks; total, downloaded
DlResponse ==
    /\ UNCHANGED <<vVars, hVars>>
    /\ dl_pc = "start"
    /\ dl_gets' = dl_gets + 1
    /\ \E st \in Statuses, cl \in ContentLengths :
          /\ dl_status' = st
          /\ dl_cl' = cl
          /\ IF st = 403 THEN DlFail("Access denied", "status") /\ total' = total
             ELSE IF st = 404 THEN DlFail("The audio file was not found", "status") /\ total' = total
             ELSE IF st # 200 THEN DlFail("Failed to download audio (HTTP)", "status") /\ total' = total
             ELSE /\ dl_pc' = "open"
                  /\ total' = TotalOf(cl)
                  /\ UNCHANGED <<dl_err, dl_cause, dl_failedAt>>
    /\ UNCHANGED <<dl_cb, downloaded, sent, written, file, file0, events>>

\* open(output_path, 'ab') would keep what the file held
OpenedForAppend(f) == [exists |-> TRUE, data |-> f.data]

\* open(output_path, 'wb'): the file is created, or truncated
OpenedForWrite(f) == [exists |-> TRUE, data |-> <<>>]

\* os.makedirs(...); open(output_path, 'wb')
DlOpen ==
    /\ UNCHANGED <<vVars, hVars>>
    /\ dl_pc = "open"
    /\ \/ /\ DlFail("OSError", "write")          \* makedirs raises, outside the try
          /\ file' = file
       \/ /\ DlFail(CaughtInTry("OSError"), "write")   \* open raises
          /\ file' = file
       \/ /\ dl_pc' = "stream"
          /\ file' = OpenedForWrite(file)
          /\ UNCHANGED <<dl_err, dl_cause, dl_failedAt>>
    /\ UNCHANGED <<dl_cb, dl_status, dl_cl, total, downloaded, sent, written,
                   file0, events, dl_gets>>

\* one iteration of: for chunk in resp.iter_content(chunk_size=8192)
DlChunk ==
    /\ UNCHANGED <<vVars, hVars>>
    /\ dl_pc = "stream"
    /\ Len(sent) < MaxChunks
    /\ \E chunk \in Chunks :
          /\ sent' = Append(sent, chunk)
          /\ IF chunk = <<>>
             THEN UNCHANGED <<dl_pc, dl_err, dl_cause, dl_failedAt, file, downloaded, written, events>>
             ELSE \/ /\ DlFail(CaughtInTry("OSError"), "write")      \* fh.write raises
                     /\ UNCHANGED <<file, downloaded, written, events>>
                  \/ /\ file' = [file EXCEPT !.data = file.data \o chunk]
                     /\ downloaded' = downloaded + Len(chunk)
                     /\ written' = written + 1
                     /\ events' = IF dl_cb
                                  THEN Append(events, DownloadingEvent(downloaded + Len(chunk), total))
                                  ELSE events
                     /\ UNCHANGED <<dl_pc, dl_err, dl_cause, dl_failedAt>>
    /\ UNCHANGED <<dl_cb, dl_status, dl_cl, total, file0, dl_gets>>

\* iter_content raises while reading the body; the with block closes the file
DlReadRaises ==
    /\ UNCHANGED <<vVars, hVars>>
    /\ dl_pc = "stream"
    /\ \E exc \in {"ReadTimeout", "ConnectionError", "ChunkedEncodingError"} :
          DlFail(CaughtInTry(exc), CauseOf(exc))
    /\ UNCHANGED <<dl_cb, dl_status, dl_cl, total, downloaded, sent, written,
                   file, file0, events, dl_gets>>

\* the body is exhausted: the with block closes the file, then the finished event
DlFinish ==
    /\ UNCHANGED <<vVars, hVars>>
    /\ dl_pc = "stream"
    /\ \/ /\ dl_pc' = "failed"                              \* close raises
          /\ dl_failedAt' = "close"
          /\ dl_err' = CaughtInTry("OSError")
          /\ dl_cause' = "write"
          /\ events' = events
       \/ /\ dl_pc' = "done"
          /\ events' = IF dl_cb THEN Append(events, FinishedEvent(downloaded, total)) ELSE events
          /\ UNCHANGED <<dl_err, dl_cause, dl_failedAt>>
    /\ UNCHANGED <<dl_cb, dl_status, dl_cl, total, downloaded, sent, written,
                   file, file0, dl_gets>>

DlNext == DlRequestRaises \/ DlResponse \/ DlOpen \/ DlChunk \/ DlReadRaises \/ DlFinish

(***************************************************************************)
(* Vendor API metadata client (spotify_utils.py)                           *)
(***************************************************************************)
NoDuration == -1    \* info['duration'] is None

EnvValues == {None, <<>>, <<"v">>}
Envs == [bearer : EnvValues, client_id : EnvValues, client_secret : {None, <<"v">>}]

\* urls by what urlparse makes of them: the host, and path.strip('/').split('/')
VendorUrls ==
    [host : {"open.spotify.com", "example.com"},
     parts : {<< <<>> >>, << <<"track">> >>, << <<"track">>, <<"id">> >>,
              << <<"track">>, <<>>, <<"id">> >>, << <<"album">>, <<"id">> >>,
              << <<"playlist">>, <<"id">> >>, << <<"artist">>, <<"id">> >>}]

\* 'open.spotify.com' in host or 'spotify' in host
HostIsSpotify(h) == h \in {"open.spotify.com", "spotify.link"}

ParseSpotifyUrl(u) ==
    IF ~HostIsSpotify(u.host) THEN <<None, None>>
    ELSE IF Len(u.parts) >= 2 THEN <<u.parts[1], u.parts[2]>>
    ELSE <<None, None>>

DefaultInfo ==
    [title |-> None, uploader |-> None, thumbnail |-> None,
     duration |-> NoDuration, formats |-> <<>>]

\* an auth step that tries the client credentials before the bearer token
AuthChoiceExchangeFirst(env) ==
    IF Truthy(env.client_id) /\ Truthy(env.client_secret) THEN "exchange"
    ELSE IF Truthy(env.bearer) THEN "bearer"
    ELSE "unconfigured"

\* which way _get_auth_headers goes: the bearer token of the environment, the
\* client-credential exchange, or get_access_token's configuration error
AuthChoice(env) ==
    IF Truthy(env.bearer) THEN "bearer"
    ELSE IF ~Truthy(env.client_id) \/ ~Truthy(env.client_secret) THEN "unconfigured"
    ELSE "exchange"

\* what the POST to the token endpoint can come to
TokenOutcomes ==
    {[ok |-> FALSE, token |-> None, msg |-> <<"ConnectionError">>],
     [ok |-> FALSE, token |-> None, msg |-> <<"ReadTimeout">>],
     [ok |-> FALSE, token |-> None, msg |-> <<"Failed to obtain Spotify token: ", "401", "invalid_client">>],
     [ok |-> FALSE, token |-> None, msg |-> <<"JSONDecodeError">>],
     [ok |-> TRUE, token |-> <<"tok">>, msg |-> <<>>],
     [ok |-> TRUE, token |-> None, msg |-> <<>>]}

TitleVals == {None, <<>>, <<"T">>}
PreviewVals == {None, <<"p1">>, <<"p2">>}
ImageLists == {<<>>, << <<"img">> >>}

\* what the GET to the oEmbed endpoint can come to
EmbedOutcomes ==
    {[ok |-> FALSE, od |-> DefaultInfo, msg |-> <<"ConnectionError">>],
     [ok |-> FALSE, od |-> DefaultInfo, msg |-> <<"oEmbed failed: ", "404", "Not Found">>],
     [ok |-> FALSE, od |-> DefaultInfo, msg |-> <<"JSONDecodeError">>]}
    \cup {[ok |-> TRUE, msg |-> <<>>,
           od |-> [DefaultInfo EXCEPT !.title = t, !.uploader = a, !.thumbnail = i]] :
            t \in TitleVals, a \in {None, <<"A">>}, i \in {None, <<"img">>}}

\* 'Spotify credentials or bearer token are required ...: ' + str(oe)
CompositeError(oe) ==
    <<"Spotify credentials or bearer token are required for full metadata (preview URLs). Fallback oEmbed failed: ">> \o oe

RECURSIVE JoinComma(_)
JoinComma(names) ==
    IF Len(names) = 1 THEN names[1] ELSE names[1] \o <<", ">> \o JoinComma(Tail(names))

TrackData ==
    [name : TitleVals,
     artists : {<<>>, << <<"A">> >>, << <<"A">>, <<"B">> >>, << None, <<"B">> >>},
     images : ImageLists, duration_ms : {0, 1999, 210000}, preview_url : {None, <<"p1">>}]

TrackInfo(info, data) ==
    LET artists == SelectSeq(data.artists, Truthy)
    IN  [title |-> data.name,
         uploader |-> IF artists # <<>> THEN JoinComma(artists) ELSE None,
         thumbnail |-> IF data.images # <<>> THEN data.images[1] ELSE info.thumbnail,
         duration |-> data.duration_ms \div 1000,
         formats |-> IF Truthy(data.preview_url)
                     THEN Append(info.formats,
                                 [format_id |-> <<"preview">>, ext |-> <<"mp3">>, url |-> data.preview_url])
                     ELSE info.formats]

\* the id of the i-th track of a response
TrackId(i) == <<"t">> \o [j \in 1..i |-> "i"]

\* a track of an album, or the embedded track of a playlist item (has: the item's
\* 'track' is not null)
Tracks == {[has |-> TRUE, id |-> <<"t">>, preview_url |-> p] : p \in PreviewVals}
TrackLists(members) == UNION {[1..n -> members] : n \in 0..MaxTracks}

\* {'format_id': t.get('id'), 'ext': 'preview' if t.get('preview_url') else 'none',
\*  'url': t.get('preview_url')} for each track
FormatsOfTracks(tracks) ==
    [i \in 1..Len(tracks) |->
        [format_id |-> IF tracks[i].has THEN TrackId(i) ELSE None,
         ext |-> IF Truthy(tracks[i].preview_url) THEN <<"preview">> ELSE <<"none">>,
         url |-> tracks[i].preview_url]]

\* artists: the names of data.get('artists', [{}])
AlbumData ==
    [name : TitleVals, artists : {<< None >>, <<>>, << <<"A">>, <<"B">> >>},
     images : ImageLists, tracks : TrackLists(Tracks)]

AlbumInfo(info, data) ==
    [title |-> data.name,
     uploader |-> data.artists[1],
     thumbnail |-> IF data.images # <<>> THEN data.images[1] ELSE info.thumbnail,
     duration |-> info.duration,
     formats |-> FormatsOfTracks(data.tracks)]

PlaylistData ==
    [name : TitleVals, owner : {None, <<"O">>}, images : ImageLists,
     items : TrackLists(Tracks \cup {[has |-> FALSE, id |-> None, preview_url |-> None]})]

PlaylistInfo(info, data) ==
    [title |-> data.name,
     uploader |-> data.owner,
     thumbnail |-> IF data.images # <<>> THEN data.images[1] ELSE info.thumbnail,
     duration |-> info.duration,
     formats |-> FormatsOfTracks(data.items)]

VFail(msg) ==
    /\ v_pc' = "failed"
    /\ v_err' = msg

\* _parse_spotify_url, the 'Invalid Spotify URL' check, the default info
VParse ==
    /\ UNCHANGED <<dlVars, hVars>>
    /\ v_pc = "start"
    /\ LET parsed == ParseSpotifyUrl(v_url)
       IN  IF ~Truthy(parsed[1]) \/ ~Truthy(parsed[2])
           THEN VFail(<<"Invalid Spotify URL">>)
           ELSE v_pc' = "auth" /\ v_err' = v_err
    /\ v_info' = DefaultInfo
    /\ UNCHANGED <<v_env, v_url, v_reqs, v_headers, v_authErr, v_embedErr>>

\* headers = _get_auth_headers(), and the except Exception that follows it
VAuth ==
    /\ UNCHANGED <<dlVars, hVars>>
    /\ v_pc = "auth"
    /\ \/ /\ AuthChoice(v_env) = "bearer"
          /\ v_headers' = <<"Bearer">> \o v_env.bearer
          /\ v_pc' = "resource"
          /\ UNCHANGED <<v_reqs, v_authErr>>
       \/ /\ AuthChoice(v_env) = "unconfigured"
          /\ v_authErr' = <<"SPOTIFY client credentials not configured">>
          /\ v_pc' = "embed"
          /\ UNCHANGED <<v_reqs, v_headers>>
       \/ /\ AuthChoice(v_env) = "exchange"
          /\ v_reqs' = Append(v_reqs, "token_post")
          /\ \E out \in TokenOutcomes :
                IF out.ok
                THEN /\ v_headers' = <<"Bearer">> \o out.token
                     /\ v_pc' = "resource"
                     /\ v_authErr' = v_authErr
                ELSE /\ v_authErr' = out.msg
                     /\ v_pc' = "embed"
                     /\ v_headers' = v_headers
    /\ UNCHANGED <<v_env, v_url, v_info, v_err, v_embedErr>>

\* the oEmbed fallback
VEmbed ==
    /\ UNCHANGED <<dlVars, hVars>>
    /\ v_pc = "embed"
    /\ v_reqs' = Append(v_reqs, "embed_get")
    /\ \E out \in EmbedOutcomes :
          IF out.ok
          THEN /\ v_info' = [v_info EXCEPT !.title = out.od.title,
                                           !.uploader = out.od.uploader,
                                           !.thumbnail = out.od.thumbnail,
                                           !.duration = NoDuration,
                                           !.formats = <<>>]
               /\ v_pc' = "done"
               /\ UNCHANGED <<v_err, v_embedErr>>
          ELSE /\ v_embedErr' = out.msg
               /\ VFail(CompositeError(out.msg))
               /\ v_info' = v_info
    /\ UNCHANGED <<v_env, v_url, v_headers, v_authErr>>

\* the call of the Web API endpoint of the resource type
VResource ==
    /\ UNCHANGED <<dlVars, hVars>>
    /\ v_pc = "resource"
    /\ LET typ == ParseSpotifyUrl(v_url)[1]
       IN  \/ /\ typ \notin {<<"track">>, <<"album">>, <<"playlist">>}
              /\ VFail(<<"Unsupported Spotify resource type">>)
              /\ UNCHANGED <<v_reqs, v_info>>
           \/ /\ typ \in {<<"track">>, <<"album">>, <<"playlist">>}
              /\ v_reqs' = Append(v_reqs, "resource_get")
              /\ \/ /\ \E exc \in {"ConnectionError", "ReadTimeout"} : VFail(<<exc>>)
                    /\ v_info' = v_info
                 \/ /\ \E st \in {"401", "404", "429"} : VFail(<<"Spotify API error: ", st>>)
                    /\ v_info' = v_info
                 \/ /\ typ = <<"track">>
                    /\ \E data \in TrackData : v_info' = TrackInfo(v_info, data)
                    /\ v_pc' = "done" /\ v_err' = v_err
                 \/ /\ typ = <<"album">>
                    /\ \E data \in AlbumData :
                          IF data.artists = <<>>
                          THEN VFail(<<"IndexError">>) /\ v_info' = v_info
                          ELSE /\ v_info' = AlbumInfo(v_info, data)
                               /\ v_pc' = "done" /\ v_err' = v_err
                 \/ /\ typ = <<"playlist">>
                    /\ \E data \in PlaylistData : v_info' = PlaylistInfo(v_info, data)
                    /\ v_pc' = "done" /\ v_err' = v_err
    /\ UNCHANGED <<v_env, v_url, v_headers, v_authErr, v_embedErr>>

VNext == VParse \/ VAuth \/ VEmbed \/ VResource
(***************************************************************************)
(* HTML metadata extractor (audiomack_downloader.py)                       *)
(***************************************************************************)
\* a or b
PyOr(a, b) == IF Truthy(a) THEN a ELSE b

\* urls, token by token
UrlA == <<"https://cdn/a", ".", "mp3">>
UrlAQuery == <<"https://cdn/a", ".", "mp3", "?", "tk=1">>
UrlB == <<"https://cdn/b", ".", "m3u8">>
UrlUpper == <<"https://cdn/c", ".", "MP3">>
\* the urls the pattern of _find_direct_audio_urls matches
ScannedUrls == {UrlA, UrlAQuery, UrlB}

Lower(tok) == IF tok = "MP3" THEN "mp3" ELSE tok

\* u.lower().endswith('.mp3')
EndsWithMp3(u) == Len(u) >= 2 /\ u[Len(u) - 1] = "." /\ Lower(u[Len(u)]) = "mp3"

\* '.m3u8' in u.lower()
HasM3u8(u) == \E i \in 1..(Len(u) - 1) : u[i] = "." /\ Lower(u[i + 1]) = "m3u8"

RECURSIVE AfterLast(_, _)
\* s.split(sep)[-1]
AfterLast(s, sep) ==
    IF \E i \in 1..Len(s) : s[i] = sep THEN AfterLast(Tail(s), sep) ELSE s

RECURSIVE BeforeFirst(_, _)
\* s.split(sep)[0]
BeforeFirst(s, sep) ==
    IF s = <<>> \/ Head(s) = sep THEN <<>> ELSE <<Head(s)>> \o BeforeFirst(Tail(s), sep)

\* 'mp3' if content.lower().endswith('.mp3') else content.split('.')[-1].split('?')[0]
LdExt(u) == IF EndsWithMp3(u) THEN <<"mp3">> ELSE BeforeFirst(AfterLast(u, "."), "?")

\* 'mp3' if u.lower().endswith('.mp3') else ('m3u8' if '.m3u8' in u.lower() else u.split('.')[-1])
ScanExt(u) ==
    IF EndsWithMp3(u) THEN <<"mp3">>
    ELSE IF HasM3u8(u) THEN <<"m3u8">>
    ELSE AfterLast(u, ".")

\* the structured-data block by what json.loads makes of it.  image: a list
\* or not; author: a dict, a string or absent; audio: a dict or not
LdImages ==
    {[list |-> FALSE, v |-> None], [list |-> TRUE, v |-> <<>>],
     [list |-> TRUE, v |-> << <<"img1">>, <<"img2">> >>]}
LdAuthors ==
    {[kind |-> "none", name |-> None], [kind |-> "str", name |-> <<"A">>],
     [kind |-> "dict", name |-> <<"B">>]}
LdAudios ==
    {[dict |-> FALSE, contentUrl |-> None, url |-> None],
     [dict |-> TRUE, contentUrl |-> None, url |-> None],
     [dict |-> TRUE, contentUrl |-> UrlA, url |-> None],
     [dict |-> TRUE, contentUrl |-> None, url |-> UrlB],
     [dict |-> TRUE, contentUrl |-> UrlUpper, url |-> UrlAQuery]}

NoFields ==
    [name |-> None, headline |-> None, image |-> [list |-> FALSE, v |-> None],
     author |-> [kind |-> "none", name |-> None],
     audio |-> [dict |-> FALSE, contentUrl |-> None, url |-> None]]

\* kind: "absent" (no block), "malformed" (json.loads raises), "list" (a JSON
\* array of objects), "dict" (a JSON object; fields: those it holds)
LdBlocks ==
    {[kind |-> k, fields |-> NoFields] : k \in {"absent", "malformed", "list"}}
    \cup {[kind |-> "dict",
           fields |-> [name |-> n, headline |-> h, image |-> i, author |-> a, audio |-> au]] :
            n \in {None, <<>>, <<"LD name">>}, h \in {None, <<"LD headline">>},
            i \in LdImages, a \in LdAuthors, au \in LdAudios}

\* _find_json_ld: no block when json.loads raises
FindJsonLd(ld) == IF ld.kind = "malformed" THEN [kind |-> "absent", fields |-> NoFields] ELSE ld

\* if json_ld: (an object holding none of the fields read is handled like {},
\* every get of it being None)
JsonLdTruthy(ld) == FindJsonLd(ld).kind # "absent"

\* audio.get('contentUrl') or audio.get('url'), None when audio is no dict
LdContent(ld) ==
    IF ld.kind = "dict" /\ ld.fields.audio.dict
    THEN PyOr(ld.fields.audio.contentUrl, ld.fields.audio.url)
    ELSE None

\* json_ld.get('name') or json_ld.get('headline') or info['title']
LdTitle(ld, title) == PyOr(ld.fields.name, PyOr(ld.fields.headline, title))

\* the JSON-LD stage on a dict
JsonLdInfo(info, ld) ==
    [title |-> LdTitle(ld, info.title),
     thumbnail |-> IF ld.fields.image.list THEN ld.fields.image.v[1] ELSE ld.fields.image.v,
     uploader |-> IF ld.fields.author.kind = "dict" THEN ld.fields.author.name
                  ELSE IF ld.fields.author.kind = "str" THEN ld.fields.author.name
                  ELSE info.uploader,
     duration |-> info.duration,
     formats |-> IF Truthy(LdContent(ld))
                 THEN Append(info.formats,
                             [format_id |-> <<"audio">>, ext |-> LdExt(LdContent(ld)),
                              url |-> LdContent(ld)])
                 ELSE info.formats]

\* the first match of each meta tag pattern, None without a match
Metas == [og_title : {None, <<"OG title">>}, og_image : {None, <<"og img">>},
          author : {None, <<"meta author">>}]

\* the meta tag fallbacks
MetaInfo(info, meta) ==
    [info EXCEPT
        !.title = IF ~Truthy(info.title) /\ meta.og_title # None THEN meta.og_title ELSE @,
        !.thumbnail = IF ~Truthy(info.thumbnail) /\ meta.og_image # None THEN meta.og_image ELSE @,
        !.uploader = IF ~Truthy(info.uploader) /\ meta.author # None THEN meta.author ELSE @]

RECURSIVE FirstSeen(_, _)
\* the elements of us, each at its first occurrence, that are not in seen
FirstSeen(us, seen) ==
    IF us = <<>> THEN <<>>
    ELSE IF Head(us) \in seen THEN FirstSeen(Tail(us), seen)
    ELSE <<Head(us)>> \o FirstSeen(Tail(us), seen \cup {Head(us)})

\* _find_direct_audio_urls on the matches of re.findall
FindDirectAudioUrls(matches) == FirstSeen(matches, {})

RECURSIVE DedupFormatsFrom(_, _)
DedupFormatsFrom(fs, seen) ==
    IF fs = <<>> THEN <<>>
    ELSE IF Truthy(Head(fs).url) /\ Head(fs).url \notin seen
         THEN <<Head(fs)>> \o DedupFormatsFrom(Tail(fs), seen \cup {Head(fs).url})
         ELSE DedupFormatsFrom(Tail(fs), seen)

\* a pass that keeps every format entry
KeepAllFormats(fs) == fs

\* Deduplicate formats by url
DedupFormats(fs) == DedupFormatsFrom(fs, {})

\* the direct links appended to the formats, then the deduplication
ScanInfo(info, matches) ==
    LET direct == FindDirectAudioUrls(matches)
        found == [i \in 1..Len(direct) |->
                    [format_id |-> ScanExt(direct[i]), ext |-> ScanExt(direct[i]),
                     url |-> direct[i]]]
    IN  [info EXCEPT !.formats = DedupFormats(info.formats \o found)]

\* the groups of the duration pattern's match (-1: the group did not take part),
\* <<>> without a match
DurationMatches == {<<>>, <<3, 27>>, <<-1, -1>>}

DurationOf(m) ==
    (IF m[1] = -1 THEN 0 ELSE m[1]) * 60 + (IF m[2] = -1 THEN 0 ELSE m[2])

PathChars == {"/", "a", "b"}
\* urlparse(url).path: empty, or beginning with a slash
Paths ==
    {<<>>} \cup {<<"/">> \o rest : rest \in UNION {[1..n -> PathChars] : n \in 0..(MaxPath - 1)}}

RECURSIVE StripLeft(_)
StripLeft(s) == IF s # <<>> /\ Head(s) = "/" THEN StripLeft(Tail(s)) ELSE s

RECURSIVE StripRight(_)
StripRight(s) ==
    IF s # <<>> /\ s[Len(s)] = "/" THEN StripRight(SubSeq(s, 1, Len(s) - 1)) ELSE s

\* parsed.path.strip('/').split('/')[-1] or 'Audiomack Track'
Slug(path) ==
    IF AfterLast(StripRight(StripLeft(path)), "/") # <<>>
    THEN AfterLast(StripRight(StripLeft(path)), "/")
    ELSE <<"Audiomack Track">>

HFail(msg) ==
    /\ h_pc' = "failed"
    /\ h_err' = msg

\* requests.get and the status checks; the empty info
HFetch ==
    /\ UNCHANGED <<dlVars, vVars>>
    /\ h_pc = "start"
    /\ \/ /\ \E msg \in {"Request timed out", "Failed to access Audiomack track"} : HFail(msg)
          /\ h_status' = h_status
       \/ \E st \in Statuses :
             /\ h_status' = st
             /\ IF st = 403 THEN HFail("This track is not publicly accessible")
                ELSE IF st = 404 THEN HFail("Track not found")
                ELSE IF st # 200 THEN HFail("Failed to access Audiomack track (HTTP)")
                ELSE h_pc' = "jsonld" /\ h_err' = h_err
    /\ h_info' = DefaultInfo
    /\ UNCHANGED <<h_ld, h_scan>>

\* Try JSON-LD first
HJsonLd ==
    /\ UNCHANGED <<dlVars, vVars>>
    /\ h_pc = "jsonld"
    /\ \E ld \in LdBlocks :
          /\ h_ld' = ld
          /\ IF ~JsonLdTruthy(ld)
             THEN h_pc' = "meta" /\ UNCHANGED <<h_info, h_err>>
             ELSE IF ld.kind = "list"
             THEN HFail("AttributeError") /\ h_info' = h_info
             ELSE IF ld.fields.image.list /\ ld.fields.image.v = <<>>
             THEN /\ HFail("IndexError")
                  /\ h_info' = [h_info EXCEPT !.title = LdTitle(ld, h_info.title)]
             ELSE /\ h_info' = JsonLdInfo(h_info, ld)
                  /\ h_pc' = "meta" /\ h_err' = h_err
    /\ UNCHANGED <<h_status, h_scan>>

\* Fall back to og: meta tags
HMeta ==
    /\ UNCHANGED <<dlVars, vVars>>
    /\ h_pc = "meta"
    /\ \E meta \in Metas : h_info' = MetaInfo(h_info, meta)
    /\ h_pc' = "scan"
    /\ UNCHANGED <<h_status, h_ld, h_scan, h_err>>

\* Search for direct audio urls in page; deduplicate formats by url
HScan ==
    /\ UNCHANGED <<dlVars, vVars>>
    /\ h_pc = "scan"
    /\ \E matches \in UNION {[1..n -> ScannedUrls] : n \in 0..MaxLinks} :
          /\ h_scan' = matches
          /\ h_info' = ScanInfo(h_info, matches)
    /\ h_pc' = "final"
    /\ UNCHANGED <<h_status, h_ld, h_err>>

\* the duration; the title of last resort, from the path of the url argument
HFinal ==
    /\ UNCHANGED <<dlVars, vVars>>
    /\ h_pc = "final"
    /\ \E m \in DurationMatches :
          LET withDuration == IF m # <<>> THEN [h_info EXCEPT !.duration = DurationOf(m)] ELSE h_info
          IN  IF Truthy(h_info.title)
              THEN h_info' = withDuration
              ELSE \E path \in Paths : h_info' = [withDuration EXCEPT !.title = Slug(path)]
    /\ h_pc' = "done"
    /\ UNCHANGED <<h_status, h_ld, h_scan, h_err>>

HNext == HFetch \/ HJsonLd \/ HMeta \/ HScan \/ HFinal

(***************************************************************************)
(* Specifications: one call of each operation                              *)
(***************************************************************************)
\* download_direct is called; the extractors are not
InitDownload ==
    /\ dl_pc = "start"
    /\ dl_cb \in BOOLEAN
    /\ dl_status = 0
    /\ dl_cl = NoHeader
    /\ total = 0
    /\ downloaded = 0
    /\ sent = <<>>
    /\ written = 0
    /\ file0 \in FilesBefore
    /\ file = file0
    /\ events = <<>>
    /\ dl_err = "none"
    /\ dl_cause = "none"
    /\ dl_gets = 0
    /\ dl_failedAt = "none"
    /\ v_pc = "idle"
    /\ v_env = [bearer |-> None, client_id |-> None, client_secret |-> None]
    /\ v_url = [host |-> "example.com", parts |-> << <<>> >>]
    /\ v_reqs = <<>>
    /\ v_headers = None
    /\ v_info = DefaultInfo
    /\ v_err = <<>>
    /\ v_authErr = <<>>
    /\ v_embedErr = <<>>
    /\ h_pc = "idle"
    /\ h_status = 0
    /\ h_ld = [kind |-> "absent", fields |-> NoFields]
    /\ h_scan = <<>>
    /\ h_info = DefaultInfo
    /\ h_err = "none"

SpecDownload == InitDownload /\ [][DlNext]_vars

\* spotify_utils.extract_info is called; the rest is not
InitVendor ==
    /\ v_pc = "start"
    /\ v_env \in Envs
    /\ v_url \in VendorUrls
    /\ v_reqs = <<>>
    /\ v_headers = None
    /\ v_info = DefaultInfo
    /\ v_err = <<>>
    /\ v_authErr = <<>>
    /\ v_embedErr = <<>>
    /\ dl_pc = "idle"
    /\ dl_cb = FALSE
    /\ dl_status = 0
    /\ dl_cl = NoHeader
    /\ total = 0
    /\ downloaded = 0
    /\ sent = <<>>
    /\ written = 0
    /\ file0 = [exists |-> FALSE, data |-> <<>>]
    /\ file = file0
    /\ events = <<>>
    /\ dl_err = "none"
    /\ dl_cause = "none"
    /\ dl_gets = 0
    /\ dl_failedAt = "none"
    /\ h_pc = "idle"
    /\ h_status = 0
    /\ h_ld = [kind |-> "absent", fields |-> NoFields]
    /\ h_scan = <<>>
    /\ h_info = DefaultInfo
    /\ h_err = "none"

SpecVendor == InitVendor /\ [][VNext]_vars

\* audiomack extract_info is called; the rest is not
InitHtml ==
    /\ h_pc = "start"
    /\ h_status = 0
    /\ h_ld = [kind |-> "absent", fields |-> NoFields]
    /\ h_scan = <<>>
    /\ h_info = DefaultInfo
    /\ h_err = "none"
    /\ dl_pc = "idle"
    /\ dl_cb = FALSE
    /\ dl_status = 0
    /\ dl_cl = NoHeader
    /\ total = 0
    /\ downloaded = 0
    /\ sent = <<>>
    /\ written = 0
    /\ file0 = [exists |-> FALSE, data |-> <<>>]
    /\ file = file0
    /\ events = <<>>
    /\ dl_err = "none"
    /\ dl_cause = "none"
    /\ dl_gets = 0
    /\ dl_failedAt = "none"
    /\ v_pc = "idle"
    /\ v_env = [bearer |-> None, client_id |-> None, client_secret |-> None]
    /\ v_url = [host |-> "example.com", parts |-> << <<>> >>]
    /\ v_reqs = <<>>
    /\ v_headers = None
    /\ v_info = DefaultInfo
    /\ v_err = <<>>
    /\ v_authErr = <<>>
    /\ v_embedErr = <<>>

SpecHtml == InitHtml /\ [][HNext]_vars

(***************************************************************************)
(* Properties of the streaming downloader                                  *)
(***************************************************************************)
StreamLength == Len(Flatten(sent))

\* C1: with a callback and a 200 response, the callback has received one
\* 'downloading' event per non-empty chunk read so far, in chunk order, each
\* with the running sum of the non-empty chunk lengths; once the call has
\* completed it has received exactly one more event, the last, which is
\* 'finished' with percentage 100 and the destination file's length; and
\* when Content-Length equals the stream length the last 'downloading'
\* event reports percentage 100.
C1_ProgressEvents ==
    (dl_cb /\ dl_pc \in {"stream", "done"}) =>
        LET ne == NonEmpty(sent)
            n == Len(ne)
        IN  /\ Len(events) = n + (IF dl_pc = "done" THEN 1 ELSE 0)
            /\ \A i \in 1..n :
                  /\ events[i].status = "downloading"
                  /\ events[i].downloaded_bytes = Len(Flatten(SubSeq(ne, 1, i)))
            /\ dl_pc = "done" =>
                  /\ events[n + 1].status = "finished"
                  /\ events[n + 1].percentage = 100
                  /\ events[n + 1].downloaded_bytes = Len(file.data)
                  /\ (dl_cl = StreamLength /\ n > 0) => events[n].percentage = 100

C1_Witness ==
    /\ dl_pc = "done" /\ dl_cb
    /\ Len(NonEmpty(sent)) >= 2 /\ Len(sent) > Len(NonEmpty(sent))
    /\ dl_cl = StreamLength
    /\ events[Len(events) - 1].percentage = 100

\* C2: download_direct fails with TransportError exactly when a timeout or
\* connection failure occurred, at the request or while reading the body,
\* and with the write-failure IOError only when a local write failed.
C2_ErrorKinds ==
    dl_pc = "failed" =>
        /\ (ErrorCategory(dl_err) = "TransportError") <=> (dl_cause \in {"timeout", "connection"})
        /\ (ErrorCategory(dl_err) = "IOError") => (dl_cause = "write")

\* C9: without a Content-Length header every 'downloading' event reports
\* total_bytes 0 and percentage 0, and the byte count reported at the end
\* is the length of the stream.
C9_NoContentLength ==
    (dl_cl = NoHeader /\ dl_status = 200) =>
        /\ \A i \in 1..Len(events) :
              events[i].status = "downloading" =>
                  (events[i].total_bytes = 0 /\ events[i].percentage = 0)
        /\ dl_pc = "done" => downloaded = StreamLength
        /\ (dl_pc = "done" /\ dl_cb) => events[Len(events)].downloaded_bytes = StreamLength

C9_Witness ==
    /\ dl_pc = "done" /\ dl_cb /\ dl_cl = NoHeader /\ dl_status = 200
    /\ Len(NonEmpty(sent)) >= 2 /\ StreamLength >= 3

C10_WitnessEarly ==
    dl_pc = "failed" /\ dl_failedAt = "start" /\ dl_status = 404 /\ file0.exists

(***************************************************************************)
(* Properties of the HTML metadata extractor                               *)
(***************************************************************************)
\* what the page offers, in discovery order: the structured-data audio url,
\* if any, then the scanned links
Discovered ==
    (IF JsonLdTruthy(h_ld) /\ Truthy(LdContent(h_ld)) THEN <<LdContent(h_ld)>> ELSE <<>>)
        \o h_scan

FirstIndex(us, u) == CHOOSE i \in 1..Len(us) : us[i] = u /\ \A j \in 1..(i - 1) : us[j] # u

\* C3: once the formats are assembled, no two entries have the same url, no
\* entry has a null url, every discovered url has its entry, the entries are
\* in discovery order, and the entry kept for a url is its first occurrence
\* (the structured-data entry when a scanned link repeats its url).
C3_FormatsDeduplicated ==
    h_pc \in {"final", "done"} =>
        LET fs == h_info.formats
        IN  /\ \A i \in 1..Len(fs) : Truthy(fs[i].url)
            /\ \A i, j \in 1..Len(fs) : fs[i].url = fs[j].url => i = j
            /\ {fs[i].url : i \in 1..Len(fs)} = {Discovered[k] : k \in 1..Len(Discovered)}
            /\ \A i, j \in 1..Len(fs) :
                  i < j => FirstIndex(Discovered, fs[i].url) < FirstIndex(Discovered, fs[j].url)
            /\ \A i \in 1..Len(fs) :
                  (fs[i].format_id = <<"audio">>) <=>
                      (Truthy(LdContent(h_ld)) /\ fs[i].url = LdContent(h_ld))

C3_Witness ==
    /\ h_pc = "done"
    /\ LdContent(h_ld) = UrlA
    /\ h_scan = <<UrlB, UrlA, UrlB>>
    /\ Len(h_info.formats) = 2

\* C8: a page fetched with status 200 whose structured-data block is
\* well-formed and has a name field (read here as: a name with a value, not
\* the empty text) yields a record whose title is that field's value.
C8_TitleIsName ==
    (h_pc \in {"done", "failed"} /\ h_status = 200
        /\ h_ld.kind = "dict" /\ Truthy(h_ld.fields.name)) =>
        (h_pc = "done" /\ h_info.title = h_ld.fields.name)

(***************************************************************************)
(* Properties of the vendor API metadata client                            *)
(***************************************************************************)
\* C4: the formats of a record the vendor client returns hold no two entries
\* with the same non-null url.
C4_VendorFormatsDistinct ==
    v_pc = "done" =>
        \A i, j \in 1..Len(v_info.formats) :
            (v_info.formats[i].url # None /\ v_info.formats[i].url = v_info.formats[j].url)
                => i = j

\* C5: the record of a successful extraction, by either extractor, has a title
\* that is set and not empty.
C5_TitleNeverEmpty ==
    /\ h_pc = "done" => Truthy(h_info.title)
    /\ v_pc = "done" => Truthy(v_info.title)

\* whether the text msg holds the text part
Contains(msg, part) ==
    \E i \in 0..(Len(msg) - Len(part)) : SubSeq(msg, i + 1, i + Len(part)) = part

\* whether the error text msg names the failure whose text is cause; the fixed
\* text of the composite error is read as naming the missing configuration
Names(msg, cause) ==
    \/ Contains(msg, cause)
    \/ /\ cause = <<"SPOTIFY client credentials not configured">>
       /\ Contains(msg, CompositeError(<<>>))

\* C6: when the authentication step and the oEmbed fallback have both failed,
\* the error extract_info raises names the cause of each.
C6_CompositeNamesBoth ==
    (v_pc = "failed" /\ v_authErr # <<>> /\ v_embedErr # <<>>) =>
        (Names(v_err, v_authErr) /\ Names(v_err, v_embedErr))

Issued(r) == \E i \in 1..Len(v_reqs) : v_reqs[i] = r

\* C7: with a bearer token configured, neither the token endpoint nor the
\* oEmbed endpoint is ever requested; the token POST is issued only without a
\* bearer token and with both client id and secret; the oEmbed GET is issued
\* only after the authentication step failed, and then no resource GET is; a
\* resource GET is issued only with an Authorization header obtained; and the
\* token POST, when issued, is the first request.
C7_AuthPriority ==
    /\ Truthy(v_env.bearer) => (~Issued("token_post") /\ ~Issued("embed_get"))
    /\ Issued("token_post") =>
          (~Truthy(v_env.bearer) /\ Truthy(v_env.client_id) /\ Truthy(v_env.client_secret))
    /\ Issued("embed_get") =>
          (v_authErr # <<>> /\ v_headers = None /\ ~Issued("resource_get"))
    /\ Issued("resource_get") => (v_headers # None /\ v_authErr = <<>>)
    /\ Len(v_reqs) <= 2
    /\ \A i \in 1..Len(v_reqs) : v_reqs[i] = "token_post" => i = 1
    /\ Len(v_reqs) = 2 => v_reqs[1] = "token_post" /\ v_reqs[2] # "token_post"

C7_Witness ==
    /\ v_pc = "done"
    /\ Truthy(v_env.bearer) /\ Truthy(v_env.client_id) /\ Truthy(v_env.client_secret)
    /\ v_reqs = <<"resource_get">>

====
